---- MODULE Spec2Model ----
(***************************************************************************)
(* Freight delay notification: the workflow freightDelayNotification, the  *)
(* three activities it awaits (checkTrafficConditions,                     *)
(* generateDelayMessage, sendEmailNotification) and the retry handling the *)
(* activity proxies are configured with.                                   *)
(*                                                                         *)
(* Strings built by the code are modelled as sequences of tokens, so that  *)
(* concatenation, trimming and emptiness are computed, not assumed.        *)
(* Durations and intervals are in seconds.                                 *)
(***************************************************************************)
EXTENDS Integers, Sequences, FiniteSets, TLC

VARIABLES
    orch,                \* which orchestrator implementation runs
    env,                 \* process.env of the worker: which variables are set
    route,               \* the DeliveryRoute argument of the workflow
    pc,                  \* the await the workflow is suspended at / its end
    act,                 \* the activity execution the workflow is awaiting
    trafficConditions,   \* workflow local: result of step 1 (None before)
    notificationMessage, \* workflow local: result of step 3 (None before)
    result,              \* the FreightDelayWorkflowResult returned (None before)
    wfFailure,           \* the error the workflow function threw (None if none)
    invoked,             \* activity -> number of times its code was invoked
    failed,              \* activity -> number of attempts that failed
    suspended,           \* activity -> total backoff waited, in seconds
    delivered,           \* number of sends the mail transport accepted
    obs,                 \* activity -> what its last completed invocation was
                         \* given, whether it called its service, how it ended
    probe,               \* an activity execution under an arbitrary retry policy
    parked,              \* the locals of the other workflow run of the worker
                         \* (None when the worker runs one workflow)
    switches             \* number of times the worker changed runs

vars == <<orch, env, route, pc, act, trafficConditions, notificationMessage,
          result, wfFailure, invoked, failed, suspended, delivered, obs,
          probe, parked, switches>>

----------------------------------------------------------------------------
\* Optional values (undefined / a value)

None == {}

Some(x) == {x}

IsSome(o) == o # {}

Get(o) == CHOOSE x \in o : TRUE

Min(a, b) == IF a <= b THEN a ELSE b

RECURSIVE Pow(_, _)
Pow(b, e) == IF e = 0 THEN 1 ELSE b * Pow(b, e - 1)

----------------------------------------------------------------------------
\* Constants of the program

DELAY_THRESHOLD_MINUTES == 30

SECONDS_TO_MINUTES == 60

RETRY_INITIAL_INTERVAL == 1

RETRY_BACKOFF_COEFFICIENT == 2

RETRY_MAX_ATTEMPTS == 3

RETRY_MAX_INTERVAL == 10

\* Bound of the exploration: how many attempts of an activity whose retry
\* policy sets no attempt limit are followed.
MaxDefaultAttempts == 2

Activities == {"checkTrafficConditions", "generateDelayMessage", "sendEmailNotification"}

Orchestrators == {"monolithic", "modular", "stepwise"}

----------------------------------------------------------------------------
\* Retry policies of the activity proxies

EmailRetryPolicy_NoLimit ==
    [initialInterval        |-> RETRY_INITIAL_INTERVAL,
     backoffCoefficient     |-> RETRY_BACKOFF_COEFFICIENT,
     maximumAttempts        |-> 0,
     maximumInterval        |-> RETRY_MAX_INTERVAL,
     nonRetryableErrorTypes |-> {"Missing SendGrid environment variables"}]

EmailRetryPolicy_FiveAttempts ==
    [initialInterval        |-> RETRY_INITIAL_INTERVAL,
     backoffCoefficient     |-> RETRY_BACKOFF_COEFFICIENT,
     maximumAttempts        |-> 5,
     maximumInterval        |-> RETRY_MAX_INTERVAL,
     nonRetryableErrorTypes |-> {"Missing SendGrid environment variables"}]

\* retry option of the sendEmailNotification proxy
EmailRetryPolicy ==
    [initialInterval        |-> RETRY_INITIAL_INTERVAL,
     backoffCoefficient     |-> RETRY_BACKOFF_COEFFICIENT,
     maximumAttempts        |-> RETRY_MAX_ATTEMPTS,
     maximumInterval        |-> RETRY_MAX_INTERVAL,
     nonRetryableErrorTypes |-> {"Missing SendGrid environment variables"}]

DefaultRetryPolicy_SingleAttempt ==
    [initialInterval        |-> 1,
     backoffCoefficient     |-> 2,
     maximumAttempts        |-> 1,
     maximumInterval        |-> 100,
     nonRetryableErrorTypes |-> {}]

\* The checkTrafficConditions and generateDelayMessage proxies pass only
\* startToCloseTimeout: the runtime then applies its default activity retry
\* policy (1 s initial interval, coefficient 2, interval capped at 100 times
\* the initial one, no attempt limit, written maximumAttempts = 0).
DefaultRetryPolicy ==
    [initialInterval        |-> 1,
     backoffCoefficient     |-> 2,
     maximumAttempts        |-> 0,
     maximumInterval        |-> 100,
     nonRetryableErrorTypes |-> {}]

PolicyOf(a) ==
    IF a = "sendEmailNotification" THEN EmailRetryPolicy ELSE DefaultRetryPolicy

\* What an activity attempt can end with, as the runtime sees it.
\* A thrown `new Error(msg)` reaches the runtime as an application failure
\* whose type is the name of the error's class, "Error".
Thrown(msg) ==
    [kind |-> "application", type |-> "Error", message |-> msg, nonRetryable |-> FALSE]

TimedOut_NotRetryable ==
    [kind |-> "application", type |-> "TimeoutFailure",
     message |-> <<"activity StartToClose timeout">>, nonRetryable |-> TRUE]

\* The attempt ran longer than the proxy's startToCloseTimeout.
TimedOut ==
    [kind |-> "timeout", type |-> "TimeoutFailure",
     message |-> <<"activity StartToClose timeout">>, nonRetryable |-> FALSE]

Returned(v) == [ok |-> TRUE, value |-> v]

Raised(f) == [ok |-> FALSE, failure |-> f]

ShouldRetry_IgnoresListedTypes(policy, attempt, f) ==
    ~ (policy.maximumAttempts # 0 /\ attempt >= policy.maximumAttempts)

ShouldRetry_GivesUpAtOnce(policy, attempt, f) == FALSE

ShouldRetry_OneAttemptTooMany(policy, attempt, f) ==
    /\ ~ (policy.maximumAttempts # 0 /\ attempt > policy.maximumAttempts)
    /\ ~ (f.kind = "application"
            /\ (f.nonRetryable \/ f.type \in policy.nonRetryableErrorTypes))

\* The retry decision after attempt number `attempt` (1-based) failed with f:
\* no retry once maximumAttempts attempts were made (0 = no limit), nor for an
\* application failure flagged non-retryable or whose type is listed.
ShouldRetry(policy, attempt, f) ==
    /\ ~ (policy.maximumAttempts # 0 /\ attempt >= policy.maximumAttempts)
    /\ ~ (f.kind = "application"
            /\ (f.nonRetryable \/ f.type \in policy.nonRetryableErrorTypes))

NextDelay_Uncapped(policy, attempt) ==
    policy.initialInterval * Pow(policy.backoffCoefficient, attempt - 1)

NextDelay_Constant(policy, attempt) == policy.initialInterval

\* The backoff waited after attempt number `attempt` failed.
NextDelay(policy, attempt) ==
    Min(policy.initialInterval * Pow(policy.backoffCoefficient, attempt - 1),
        policy.maximumInterval)

\* What the workflow's await throws when the runtime gives up on an activity:
\* an ActivityFailure (an Error) wrapping the last attempt's failure.
ActivityFailure(f) ==
    [isError |-> TRUE, message |-> <<"Activity task failed">>, cause |-> f]

----------------------------------------------------------------------------
\* Activity checkTrafficConditions

MathRound_Floor(x, d) == x \div d

\* Math.round(x / d): the nearest integer, a half rounding towards +infinity
MathRound(x, d) == (2 * x + d) \div (2 * d)

\* Delays (seconds) the Directions responses of the model carry: negative,
\* zero, around a half minute, and around the threshold.
DelaySeconds == {-90, -30, 0, 630, 1020, 1500, 1769, 1770, 1800, 1829, 1830, 2400}

\* The legs a Directions response can carry: duration_in_traffic is optional,
\* and may be reported as 0.
Legs ==
    { [distance |-> 100000, duration |-> 3600, duration_in_traffic |-> dit] :
        dit \in {None, Some(0)} \cup { Some(3600 + d) : d \in DelaySeconds } }

\* What client.directions can answer: a rejected request, or a response with a
\* status and a list of routes.
DirectionsResponses ==
    { [rejected |-> TRUE, error |-> "Network error", status |-> "", routes |-> <<>>] }
      \cup { [rejected |-> FALSE, error |-> "", status |-> "ZERO_RESULTS", routes |-> <<>>] }
      \cup { [rejected |-> FALSE, error |-> "", status |-> "OK", routes |-> <<>>] }
      \cup { [rejected |-> FALSE, error |-> "", status |-> "OK",
              routes |-> << [summary |-> "A1", legs |-> <<leg>>] >>] : leg \in Legs }

\* leg.duration_in_traffic?.value || leg.duration.value
DurationInTraffic(leg) ==
    IF IsSome(leg.duration_in_traffic) /\ Get(leg.duration_in_traffic) # 0
    THEN Get(leg.duration_in_traffic)
    ELSE leg.duration

TrafficConditionsOf(route_data) ==
    LET leg == route_data.legs[1]
        durationInTraffic == DurationInTraffic(leg)
        durationWithoutTraffic == leg.duration
        delayInSeconds == durationInTraffic - durationWithoutTraffic
        delayInMinutes == MathRound(delayInSeconds, SECONDS_TO_MINUTES)
    IN  [distance               |-> leg.distance,
         durationWithoutTraffic |-> durationWithoutTraffic,
         durationInTraffic      |-> durationInTraffic,
         delayInSeconds         |-> delayInSeconds,
         delayInMinutes         |-> delayInMinutes,
         routeSummary           |-> route_data.summary]

checkTrafficConditions_RequestsWithoutKey(e, response) ==
    IF response.rejected
    THEN Raised(Thrown(<<"Failed to fetch traffic conditions: ", response.error>>))
    ELSE IF response.status # "OK"
    THEN Raised(Thrown(<<"Failed to fetch traffic conditions: ",
                         "Google Maps API error: ", response.status>>))
    ELSE IF Len(response.routes) = 0
    THEN Raised(Thrown(<<"Failed to fetch traffic conditions: ",
                         "No routes found for the given origin and destination">>))
    ELSE Returned(TrafficConditionsOf(response.routes[1]))

\* One invocation of the activity, given the environment and what the
\* Directions API answers.  The key check precedes the try block, every error
\* raised inside it is rethrown with a prefix.
checkTrafficConditions(e, response) ==
    IF ~ e.GOOGLE_MAPS_API_KEY
    THEN Raised(Thrown(<<"GOOGLE_MAPS_API_KEY environment variable is not set">>))
    ELSE IF response.rejected
    THEN Raised(Thrown(<<"Failed to fetch traffic conditions: ", response.error>>))
    ELSE IF response.status # "OK"
    THEN Raised(Thrown(<<"Failed to fetch traffic conditions: ",
                         "Google Maps API error: ", response.status>>))
    ELSE IF Len(response.routes) = 0
    THEN Raised(Thrown(<<"Failed to fetch traffic conditions: ",
                         "No routes found for the given origin and destination">>))
    ELSE Returned(TrafficConditionsOf(response.routes[1]))

----------------------------------------------------------------------------
\* Activity generateDelayMessage

Whitespace == {" ", "\n"}

RECURSIVE TrimStart(_)
TrimStart(s) ==
    IF s # <<>> /\ Head(s) \in Whitespace THEN TrimStart(Tail(s)) ELSE s

RECURSIVE TrimEnd(_)
TrimEnd(s) ==
    IF s # <<>> /\ s[Len(s)] \in Whitespace
    THEN TrimEnd(SubSeq(s, 1, Len(s) - 1))
    ELSE s

\* String.prototype.trim
Trim(s) == TrimEnd(TrimStart(s))

generateFallbackMessage(input) ==
    LET greeting == IF IsSome(input.customerName)
                    THEN <<"Dear ", Get(input.customerName), ",">>
                    ELSE <<"Dear Customer,">>
        delayTime == input.trafficConditions.delayInMinutes
        routeInfo == <<"from ", input.route.origin, " to ", input.route.destination>>
    IN  greeting
          \o <<" We wanted to inform you that your freight delivery ">>
          \o routeInfo
          \o <<" is experiencing a ", ToString(delayTime),
               "-minute delay due to current traffic conditions on ",
               input.trafficConditions.routeSummary,
               ". We're actively monitoring the situation and will keep you updated.",
               " We apologize for any inconvenience this may cause.">>

\* What anthropic.messages.create can answer: a rejected call, or a message
\* whose content is a list of blocks.
AIResponses ==
    { [rejected |-> TRUE, content |-> <<>>] }
      \cup { [rejected |-> FALSE, content |-> c] :
               c \in { <<>>,
                       << [type |-> "tool_use", text |-> <<>>] >>,
                       << [type |-> "text",
                           text |-> <<" ", "Your delivery is delayed by traffic.", "\n">>] >>,
                       << [type |-> "tool_use", text |-> <<>>],
                          [type |-> "text", text |-> <<"We are monitoring the delay.">>] >>,
                       << [type |-> "text", text |-> <<" ", "\n">>] >> } }

\* message.content.find((block) => block.type === 'text')
FindTextBlock(content) ==
    LET texts == SelectSeq(content, LAMBDA block : block.type = "text")
    IN  IF texts = <<>> THEN None ELSE Some(Head(texts))

generateDelayMessage_Rethrows(e, input, response) ==
    IF ~ e.ANTHROPIC_API_KEY
    THEN Returned(generateFallbackMessage(input))
    ELSE IF response.rejected
    THEN Raised(Thrown(<<"Failed to generate delay message">>))
    ELSE IF ~ IsSome(FindTextBlock(response.content))
    THEN Raised(Thrown(<<"No text content in Claude response">>))
    ELSE Returned(Trim(Get(FindTextBlock(response.content)).text))

\* One invocation of the activity: without a key the template is returned and
\* no call is made; a failed call or a response without a text block ends in
\* the catch block, which returns the template.
generateDelayMessage(e, input, response) ==
    IF ~ e.ANTHROPIC_API_KEY
    THEN Returned(generateFallbackMessage(input))
    ELSE IF response.rejected
    THEN Returned(generateFallbackMessage(input))
    ELSE IF ~ IsSome(FindTextBlock(response.content))
    THEN Returned(generateFallbackMessage(input))
    ELSE Returned(Trim(Get(FindTextBlock(response.content)).text))

----------------------------------------------------------------------------
\* Activity sendEmailNotification

\* What sgMail.send can answer
TransportAnswers == {"accepted", "rejected"}

MissingVars(e) ==
    (IF e.SENDGRID_API_KEY THEN <<>> ELSE <<"SENDGRID_API_KEY">>)
      \o (IF e.SENDGRID_FROM_EMAIL THEN <<>> ELSE <<"SENDGRID_FROM_EMAIL">>)

\* True iff this invocation reaches sgMail.send
CallsTransport(e) == Len(MissingVars(e)) = 0

\* True iff an invocation of checkTrafficConditions reaches client.directions
IssuesRequest(e) == e.GOOGLE_MAPS_API_KEY

\* True iff an invocation of generateDelayMessage reaches messages.create
CallsAI(e) == e.ANTHROPIC_API_KEY

sendEmailNotification_SwallowsRejection(e, input, answer) ==
    IF Len(MissingVars(e)) > 0
    THEN Raised(Thrown(<<"Missing SendGrid environment variables: ">> \o MissingVars(e)))
    ELSE Returned("void")

\* One invocation of the activity, given the environment and what the
\* transport answers if it is called.
sendEmailNotification(e, input, answer) ==
    IF Len(MissingVars(e)) > 0
    THEN Raised(Thrown(<<"Missing SendGrid environment variables: ">> \o MissingVars(e)))
    ELSE IF answer = "accepted"
    THEN Returned("void")
    ELSE Raised(Thrown(<<"Failed to send email: ", "SendGrid API is down">>))

----------------------------------------------------------------------------
\* The workflow: threshold decision and result construction

delayExceedsThreshold_Strict(tc) == tc.delayInMinutes > DELAY_THRESHOLD_MINUTES

delayExceedsThreshold_OneBelow(tc) == tc.delayInMinutes >= DELAY_THRESHOLD_MINUTES - 1

\* workflows.ts: trafficConditions.delayInMinutes >= DELAY_THRESHOLD_MINUTES
delayExceedsThreshold(tc) == tc.delayInMinutes >= DELAY_THRESHOLD_MINUTES

evaluateDelayThreshold_Inclusive(tc) ==
    [exceedsThreshold |-> tc.delayInMinutes >= DELAY_THRESHOLD_MINUTES,
     delayInMinutes   |-> tc.delayInMinutes,
     thresholdMinutes |-> DELAY_THRESHOLD_MINUTES]

\* workflows/evaluate-delay.ts, used by the modular orchestrator
evaluateDelayThreshold(tc) ==
    [exceedsThreshold |-> tc.delayInMinutes > DELAY_THRESHOLD_MINUTES,
     delayInMinutes   |-> tc.delayInMinutes,
     thresholdMinutes |-> DELAY_THRESHOLD_MINUTES]

\* step2-evaluate-delay, used by the stepwise orchestrator
evaluateDelayThresholdStep2(tc) ==
    [exceedsThreshold |-> tc.delayInMinutes >= DELAY_THRESHOLD_MINUTES,
     delayInMinutes   |-> tc.delayInMinutes,
     thresholdMinutes |-> DELAY_THRESHOLD_MINUTES]

ExceedsThreshold_Always(o, tc) == TRUE

\* The threshold decision of orchestrator o
ExceedsThreshold(o, tc) ==
    CASE o = "monolithic" -> delayExceedsThreshold(tc)
      [] o = "modular"    -> evaluateDelayThreshold(tc).exceedsThreshold
      [] o = "stepwise"   -> evaluateDelayThresholdStep2(tc).exceedsThreshold

NoDelayResult_ClampsDelay(tc) ==
    [delayDetected       |-> FALSE,
     trafficConditions   |-> [tc EXCEPT !.delayInMinutes = IF @ < 0 THEN 0 ELSE @],
     notificationSent    |-> FALSE,
     notificationMessage |-> None,
     notificationError   |-> None]

\* The early return of the no-delay path
NoDelayResult(tc) ==
    [delayDetected       |-> FALSE,
     trafficConditions   |-> tc,
     notificationSent    |-> FALSE,
     notificationMessage |-> None,
     notificationError   |-> None]

DelayResult_DropsUnsentMessage(tc, message, sent, error) ==
    [delayDetected       |-> TRUE,
     trafficConditions   |-> tc,
     notificationSent    |-> sent,
     notificationMessage |-> IF sent THEN Some(message) ELSE None,
     notificationError   |-> error]

\* The final return of the delay path
DelayResult(tc, message, sent, error) ==
    [delayDetected       |-> TRUE,
     trafficConditions   |-> tc,
     notificationSent    |-> sent,
     notificationMessage |-> Some(message),
     notificationError   |-> error]

\* error instanceof Error ? error.message : 'Unknown error sending email'
ErrorMessageOf(error) ==
    IF error.isError THEN error.message ELSE <<"Unknown error sending email">>

sendNotificationStep_SentOnlyFirstTry(a) ==
    IF a.state = "resolved"
    THEN [threw |-> FALSE, sent |-> a.attempt = 1, error |-> None]
    ELSE [threw |-> FALSE, sent |-> FALSE, error |-> Some(ErrorMessageOf(Get(a.thrown)))]

sendNotificationStep_Rethrows(a) ==
    IF a.state = "resolved"
    THEN [threw |-> FALSE, sent |-> TRUE, error |-> None]
    ELSE [threw |-> TRUE, sent |-> FALSE, error |-> Some(ErrorMessageOf(Get(a.thrown)))]

\* sendNotificationStep: how it completes, given the settled activity
\* execution a of sendEmailNotification.  It never throws.
sendNotificationStep(a) ==
    IF a.state = "resolved"
    THEN [threw |-> FALSE, sent |-> TRUE, error |-> None]
    ELSE [threw |-> FALSE, sent |-> FALSE, error |-> Some(ErrorMessageOf(Get(a.thrown)))]

TryCatchSendEmail_UnknownError(a) ==
    IF a.state = "resolved"
    THEN [threw |-> FALSE, sent |-> TRUE, error |-> None]
    ELSE [threw |-> FALSE, sent |-> FALSE, error |-> Some(<<"Unknown error sending email">>)]

TryCatchSendEmail_NoCatch(a) ==
    IF a.state = "resolved"
    THEN [threw |-> FALSE, sent |-> TRUE, error |-> None]
    ELSE [threw |-> TRUE, sent |-> FALSE, error |-> None]

TryCatchSendEmail_KeepsEarlierError(a) ==
    IF a.state = "resolved"
    THEN [threw |-> FALSE, sent |-> TRUE,
          error |-> IF IsSome(a.lastFailure) THEN Some(Get(a.lastFailure).message) ELSE None]
    ELSE [threw |-> FALSE, sent |-> FALSE, error |-> Some(ErrorMessageOf(Get(a.thrown)))]

\* Step 4 of the monolithic workflow: notificationSent and notificationError
\* after its try/catch block.
TryCatchSendEmail(a) ==
    IF a.state = "resolved"
    THEN [threw |-> FALSE, sent |-> TRUE, error |-> None]
    ELSE [threw |-> FALSE, sent |-> FALSE, error |-> Some(ErrorMessageOf(Get(a.thrown)))]

NotificationOutcome(o, a) ==
    IF o = "monolithic" THEN TryCatchSendEmail(a) ELSE sendNotificationStep(a)

----------------------------------------------------------------------------
\* Activity executions under the runtime

\* The variables the activities read from process.env at each invocation.
\* worker.ts refuses to start without the first, third and fourth; workers
\* created elsewhere (the tests, the example scripts) do not check them.
EnvVars == {"GOOGLE_MAPS_API_KEY", "ANTHROPIC_API_KEY", "SENDGRID_API_KEY", "SENDGRID_FROM_EMAIL"}

Routes ==
    { [origin |-> "Berlin", destination |-> "Milan", customerName |-> n,
       customerEmail |-> "customer@example.com"] : n \in {None, Some("Esteban")} }

\* A freshly scheduled execution of activity a: its first attempt is pending
Schedule(a) ==
    [name |-> a, state |-> "scheduled", attempt |-> 1, value |-> None,
     lastFailure |-> None, thrown |-> None, delay |-> 0]

Settle_RetriesAfterSuccess(a, outcome) ==
    IF outcome.ok /\ a.attempt >= 2
    THEN [a EXCEPT !.state = "resolved", !.value = Some(outcome.value)]
    ELSE IF outcome.ok \/ ShouldRetry(PolicyOf(a.name), a.attempt, outcome.failure)
    THEN [a EXCEPT !.state = "backoff",
                   !.lastFailure = IF outcome.ok THEN @ ELSE Some(outcome.failure),
                   !.delay = NextDelay(PolicyOf(a.name), a.attempt)]
    ELSE [a EXCEPT !.state = "rejected", !.lastFailure = Some(outcome.failure),
                   !.thrown = Some(ActivityFailure(outcome.failure))]

\* The runtime's handling of the end of an attempt of execution a: a returned
\* value resolves the proxy call; a failure is retried after a backoff when
\* the policy allows, and otherwise rejects the proxy call.
Settle(a, outcome) ==
    IF outcome.ok
    THEN [a EXCEPT !.state = "resolved", !.value = Some(outcome.value)]
    ELSE IF ShouldRetry(PolicyOf(a.name), a.attempt, outcome.failure)
    THEN [a EXCEPT !.state = "backoff", !.lastFailure = Some(outcome.failure),
                   !.delay = NextDelay(PolicyOf(a.name), a.attempt)]
    ELSE [a EXCEPT !.state = "rejected", !.lastFailure = Some(outcome.failure),
                   !.thrown = Some(ActivityFailure(outcome.failure))]

Count(outcome) == IF outcome.ok THEN 0 ELSE 1

\* The record kept of a completed invocation
Observation(input, response, called, outcome) ==
    [input |-> input, response |-> response, called |-> called, outcome |-> outcome]

Init ==
    /\ orch \in Orchestrators
    /\ env \in [EnvVars -> BOOLEAN]
    /\ route \in Routes
    /\ pc = "checkTraffic"
    /\ act = Schedule("checkTrafficConditions")
    /\ trafficConditions = None
    /\ notificationMessage = None
    /\ result = None
    /\ wfFailure = None
    /\ invoked = [a \in Activities |-> 0]
    /\ failed = [a \in Activities |-> 0]
    /\ suspended = [a \in Activities |-> 0]
    /\ delivered = 0
    /\ obs = [a \in Activities |-> None]
    /\ probe = None
    /\ parked = None
    /\ switches = 0

\* The worker runs the pending attempt of checkTrafficConditions
InvokeCheckTrafficConditions ==
    /\ act.name = "checkTrafficConditions" /\ act.state = "scheduled"
    /\ \E response \in DirectionsResponses :
         LET outcome == checkTrafficConditions(env, response)
         IN  /\ act' = Settle(act, outcome)
             /\ failed' = [failed EXCEPT ![act.name] = @ + Count(outcome)]
             /\ obs' = [obs EXCEPT ![act.name] =
                          Some(Observation(route, response, IssuesRequest(env), outcome))]
    /\ invoked' = [invoked EXCEPT ![act.name] = @ + 1]
    /\ UNCHANGED <<probe, parked, switches>>
    /\ UNCHANGED <<orch, env, route, pc, trafficConditions, notificationMessage,
                   result, wfFailure, suspended, delivered>>

\* The worker runs the pending attempt of generateDelayMessage
InvokeGenerateDelayMessage ==
    /\ act.name = "generateDelayMessage" /\ act.state = "scheduled"
    /\ \E response \in AIResponses :
         LET input == [route |-> route, trafficConditions |-> Get(trafficConditions),
                       customerName |-> route.customerName]
             outcome == generateDelayMessage(env, input, response)
         IN  /\ act' = Settle(act, outcome)
             /\ failed' = [failed EXCEPT ![act.name] = @ + Count(outcome)]
             /\ obs' = [obs EXCEPT ![act.name] =
                          Some(Observation(input, response, CallsAI(env), outcome))]
    /\ invoked' = [invoked EXCEPT ![act.name] = @ + 1]
    /\ UNCHANGED <<probe, parked, switches>>
    /\ UNCHANGED <<orch, env, route, pc, trafficConditions, notificationMessage,
                   result, wfFailure, suspended, delivered>>

\* The worker runs the pending attempt of sendEmailNotification
InvokeSendEmailNotification ==
    /\ act.name = "sendEmailNotification" /\ act.state = "scheduled"
    /\ \E answer \in TransportAnswers :
         LET input == [to |-> route.customerEmail,
                       subject |-> <<"Delivery Delay Alert: ", route.origin, " to ",
                                     route.destination>>,
                       message |-> Get(notificationMessage)]
             outcome == sendEmailNotification(env, input, answer)
         IN  /\ act' = Settle(act, outcome)
             /\ failed' = [failed EXCEPT ![act.name] = @ + Count(outcome)]
             /\ obs' = [obs EXCEPT ![act.name] =
                          Some(Observation(input, answer, CallsTransport(env), outcome))]
             /\ delivered' = IF CallsTransport(env) /\ answer = "accepted"
                             THEN delivered + 1 ELSE delivered
    /\ invoked' = [invoked EXCEPT ![act.name] = @ + 1]
    /\ UNCHANGED <<probe, parked, switches>>
    /\ UNCHANGED <<orch, env, route, pc, trafficConditions, notificationMessage,
                   result, wfFailure, suspended>>

\* The pending attempt runs past the proxy's startToCloseTimeout: the runtime
\* ends it as a failed attempt.  A send in flight may already be accepted.
StartToCloseTimeout ==
    /\ act.state = "scheduled"
    /\ act' = Settle(act, Raised(TimedOut))
    /\ invoked' = [invoked EXCEPT ![act.name] = @ + 1]
    /\ failed' = [failed EXCEPT ![act.name] = @ + 1]
    /\ \E accepted \in BOOLEAN :
         delivered' = IF act.name = "sendEmailNotification" /\ CallsTransport(env) /\ accepted
                      THEN delivered + 1 ELSE delivered
    /\ UNCHANGED <<probe, parked, switches>>
    /\ UNCHANGED <<orch, env, route, pc, trafficConditions, notificationMessage,
                   result, wfFailure, suspended, obs>>

\* The backoff interval has passed: the runtime schedules the next attempt
BackoffElapsed ==
    /\ act.state = "backoff"
    /\ PolicyOf(act.name).maximumAttempts = 0 => act.attempt < MaxDefaultAttempts
    /\ act' = [act EXCEPT !.state = "scheduled", !.attempt = @ + 1, !.delay = 0]
    /\ suspended' = [suspended EXCEPT ![act.name] = @ + act.delay]
    /\ UNCHANGED <<probe, parked, switches>>
    /\ UNCHANGED <<orch, env, route, pc, trafficConditions, notificationMessage,
                   result, wfFailure, invoked, failed, delivered, obs>>

----------------------------------------------------------------------------
\* The workflow function freightDelayNotification, one action per await

\* Steps 1 and 2: the await of checkTrafficConditions settles; the threshold
\* decision either returns the no-delay result or starts message generation.
\* A rejection is not caught: the workflow function throws it.
AwaitCheckTraffic ==
    /\ pc = "checkTraffic" /\ act.state \in {"resolved", "rejected"}
    /\ IF act.state = "rejected"
       THEN /\ pc' = "failed"
            /\ wfFailure' = act.thrown
            /\ UNCHANGED <<act, trafficConditions, result>>
       ELSE LET tc == Get(act.value)
            IN  /\ trafficConditions' = Some(tc)
                /\ wfFailure' = wfFailure
                /\ IF ~ ExceedsThreshold(orch, tc)
                   THEN /\ result' = Some(NoDelayResult(tc))
                        /\ pc' = "done"
                        /\ act' = act
                   ELSE /\ result' = result
                        /\ pc' = "generateMessage"
                        /\ act' = Schedule("generateDelayMessage")
    /\ UNCHANGED <<probe, parked, switches>>
    /\ UNCHANGED <<orch, env, route, notificationMessage, invoked, failed,
                   suspended, delivered, obs>>

AwaitGenerateMessage_NoAwait ==
    /\ pc = "generateMessage"
    /\ notificationMessage' = act.value
    /\ wfFailure' = wfFailure
    /\ pc' = "sendNotification"
    /\ act' = Schedule("sendEmailNotification")
    /\ UNCHANGED <<probe, parked, switches>>
    /\ UNCHANGED <<orch, env, route, trafficConditions, result, invoked, failed,
                   suspended, delivered, obs>>

\* Step 3: the await of generateDelayMessage settles; the delivery starts.
\* A rejection is not caught: the workflow function throws it.
AwaitGenerateMessage ==
    /\ pc = "generateMessage" /\ act.state \in {"resolved", "rejected"}
    /\ IF act.state = "rejected"
       THEN /\ pc' = "failed"
            /\ wfFailure' = act.thrown
            /\ UNCHANGED <<act, notificationMessage>>
       ELSE /\ notificationMessage' = act.value
            /\ wfFailure' = wfFailure
            /\ pc' = "sendNotification"
            /\ act' = Schedule("sendEmailNotification")
    /\ UNCHANGED <<probe, parked, switches>>
    /\ UNCHANGED <<orch, env, route, trafficConditions, result, invoked, failed,
                   suspended, delivered, obs>>

\* Step 4: the await of sendEmailNotification settles inside the try block
\* (monolithic) or inside sendNotificationStep; the delay-path result is
\* returned.
AwaitSendNotification ==
    /\ pc = "sendNotification" /\ act.state \in {"resolved", "rejected"}
    /\ LET n == NotificationOutcome(orch, act)
       IN  IF n.threw
           THEN /\ pc' = "failed"
                /\ wfFailure' = act.thrown
                /\ result' = result
           ELSE /\ pc' = "done"
                /\ wfFailure' = wfFailure
                /\ result' = Some(DelayResult(Get(trafficConditions),
                                              Get(notificationMessage), n.sent, n.error))
    /\ UNCHANGED <<probe, parked, switches>>
    /\ UNCHANGED <<orch, env, route, act, trafficConditions, notificationMessage,
                   invoked, failed, suspended, delivered, obs>>

Next ==
    \/ InvokeCheckTrafficConditions
    \/ InvokeGenerateDelayMessage
    \/ InvokeSendEmailNotification
    \/ StartToCloseTimeout
    \/ BackoffElapsed
    \/ AwaitCheckTraffic
    \/ AwaitGenerateMessage
    \/ AwaitSendNotification

Spec == Init /\ [][Next]_vars

----------------------------------------------------------------------------
\* Properties

Email == "sendEmailNotification"

Traffic == "checkTrafficConditions"

Message == "generateDelayMessage"

Ended == pc \in {"done", "failed"}

\* The delivery step ended in terminal failure: the runtime gave up on
\* sendEmailNotification and rejected the proxy call
DeliveryFailedTerminally == act.name = Email /\ act.state = "rejected"

\* The failure is one the delivery policy's nonRetryableErrorTypes matches
MatchesNonRetryable(f) ==
    f.kind = "application"
      /\ (f.nonRetryable \/ f.type \in EmailRetryPolicy.nonRetryableErrorTypes)

\* The failure sendEmailNotification raises when SendGrid variables are unset
IsMissingConfiguration(f) ==
    f.kind = "application" /\ Head(f.message) = "Missing SendGrid environment variables: "

\* C1: when the traffic lookup succeeded, the delay met the threshold and the
\* delivery step ended in terminal failure, the ended run returned a result
\* (it did not throw) with delayDetected = true, notificationSent = false,
\* notificationMessage equal to the generated content and notificationError
\* present.
C1_DeliveryFailureIsolated ==
    (Ended /\ DeliveryFailedTerminally) =>
        /\ pc = "done"
        /\ wfFailure = None
        /\ IsSome(result)
        /\ Get(result).delayDetected = TRUE
        /\ Get(result).notificationSent = FALSE
        /\ Get(result).notificationMessage = notificationMessage
        /\ IsSome(notificationMessage)
        /\ IsSome(Get(result).notificationError)

C1_Witness ==
    /\ pc = "done" /\ DeliveryFailedTerminally
    /\ IsSome(result) /\ IsSome(Get(result).notificationError)
    /\ orch = "modular"

\* C2: in every returned result notificationSent = true implies
\* notificationError is absent, and notificationError present implies
\* notificationSent = false, after any sequence of delivery attempt outcomes.
C2_ResultInvariant ==
    IsSome(result) =>
        /\ Get(result).notificationSent => Get(result).notificationError = None
        /\ IsSome(Get(result).notificationError) => ~ Get(result).notificationSent

\* a delivery that succeeded after an earlier attempt had failed
C2_Witness ==
    /\ IsSome(result) /\ Get(result).notificationSent
    /\ failed[Email] > 0
    /\ orch = "monolithic"

\* C3: in every returned result notificationMessage is present if and only
\* if delayDetected is true, also when the delivery ultimately failed.
C3_MessageIffDelayDetected ==
    IsSome(result) =>
        (IsSome(Get(result).notificationMessage) <=> Get(result).delayDetected)

C3_Witness ==
    /\ IsSome(result) /\ Get(result).delayDetected
    /\ ~ Get(result).notificationSent
    /\ IsSome(Get(result).notificationMessage)

\* C4: whenever the traffic lookup returned a delayInMinutes below the
\* threshold, the run ended with the no-delay result: delayDetected = false,
\* notificationSent = false, no message, no error (and the lookup's output).
C4_BelowThresholdNoDelay ==
    (IsSome(trafficConditions)
       /\ Get(trafficConditions).delayInMinutes < DELAY_THRESHOLD_MINUTES) =>
        /\ pc = "done"
        /\ result = Some([delayDetected       |-> FALSE,
                          trafficConditions   |-> Get(trafficConditions),
                          notificationSent    |-> FALSE,
                          notificationMessage |-> None,
                          notificationError   |-> None])
        /\ invoked[Message] = 0 /\ invoked[Email] = 0

C4_Witness ==
    /\ pc = "done" /\ IsSome(result)
    /\ Get(trafficConditions).delayInMinutes = DELAY_THRESHOLD_MINUTES - 1
    /\ orch = "monolithic"

\* C5: in the primary orchestration path (workflows.ts) a lookup reporting a
\* delay exactly equal to the threshold proceeds to message generation and
\* delivery, and the run returns delayDetected = true.
C5_PrimaryPathInclusive ==
    (orch = "monolithic" /\ IsSome(trafficConditions)
       /\ Get(trafficConditions).delayInMinutes = DELAY_THRESHOLD_MINUTES) =>
        /\ pc \in {"generateMessage", "sendNotification", "done"}
        /\ pc = "done" =>
             /\ IsSome(result) /\ Get(result).delayDetected = TRUE
             /\ invoked[Message] >= 1 /\ invoked[Email] >= 1

C5_Witness ==
    /\ orch = "monolithic" /\ pc = "done"
    /\ Get(trafficConditions).delayInMinutes = DELAY_THRESHOLD_MINUTES
    /\ Get(result).delayDetected

\* C6: in the modular orchestrator (evaluateDelayThreshold of
\* evaluate-delay.ts) a lookup reporting a delay exactly equal to
\* DELAY_THRESHOLD_MINUTES returns delayDetected = false, with
\* trafficConditions.delayInMinutes still equal to the threshold.
C6_ModularStrict ==
    (orch = "modular" /\ IsSome(trafficConditions)
       /\ Get(trafficConditions).delayInMinutes = DELAY_THRESHOLD_MINUTES) =>
        /\ pc = "done"
        /\ IsSome(result)
        /\ Get(result).delayDetected = FALSE
        /\ Get(result).trafficConditions.delayInMinutes = DELAY_THRESHOLD_MINUTES

C6_Witness ==
    /\ orch = "modular" /\ pc = "done" /\ IsSome(result)
    /\ Get(result).trafficConditions.delayInMinutes = DELAY_THRESHOLD_MINUTES
    /\ ~ Get(result).delayDetected

C8_OnlyTrafficCanFailRun ==
    IsSome(trafficConditions) =>
        /\ pc # "failed"
        /\ wfFailure = None
        /\ Ended => IsSome(result)

\* a run that returned although a message attempt timed out and the delivery
\* ended in terminal failure
C8_Witness ==
    /\ pc = "done" /\ IsSome(result)
    /\ failed[Message] > 0
    /\ DeliveryFailedTerminally
    /\ orch = "monolithic"

\* C9: the delivery operation is never invoked more than maximumAttempts
\* times, and when the runtime gives up on it after failures the retry policy
\* does not list, it has been invoked exactly maximumAttempts times, every
\* one of them failed.
C9_RetryExhaustion ==
    /\ invoked[Email] <= RETRY_MAX_ATTEMPTS
    /\ (DeliveryFailedTerminally /\ ~ MatchesNonRetryable(Get(act.lastFailure))) =>
         /\ act.attempt = RETRY_MAX_ATTEMPTS
         /\ invoked[Email] = RETRY_MAX_ATTEMPTS
         /\ failed[Email] = RETRY_MAX_ATTEMPTS

C9_Witness ==
    /\ DeliveryFailedTerminally
    /\ invoked[Email] = RETRY_MAX_ATTEMPTS
    /\ Get(act.lastFailure).message = <<"Failed to send email: ", "SendGrid API is down">>

\* C10: when the delivery operation fails because SendGrid configuration is
\* missing, it is attempted exactly once, no backoff is waited and the
\* failure is at once the terminal failure.
C10_MissingConfigurationNotRetried ==
    (act.name = Email /\ IsSome(act.lastFailure)
       /\ IsMissingConfiguration(Get(act.lastFailure))) =>
        /\ act.state = "rejected"
        /\ act.attempt = 1
        /\ invoked[Email] = 1
        /\ suspended[Email] = 0

----------------------------------------------------------------------------
\* Message generation and pass-through

\* The observation of the last completed invocation of activity a
Observed(a) == Get(obs[a])

\* C11: in every result of the delay path, with a reported delay of at least
\* the threshold, the notificationMessage is a non-empty string, whether the
\* AI call produced it or the fallback template did.
C11_MessageNonEmpty ==
    (IsSome(result)
       /\ Get(result).delayDetected
       /\ Get(result).trafficConditions.delayInMinutes >= DELAY_THRESHOLD_MINUTES) =>
        /\ IsSome(Get(result).notificationMessage)
        /\ Get(Get(result).notificationMessage) # <<>>


\* True iff no block of the content is a text block
NoTextBlock(content) == \A i \in 1..Len(content) : content[i].type # "text"

\* C12: message generation never raises: every completed invocation returns
\* a string; without the AI credential it returns the fallback template and
\* makes no AI call; when the AI call fails or answers without a text block
\* it returns the fallback template.
C12_GenerationNeverRaises ==
    IsSome(obs[Message]) =>
        LET o == Observed(Message)
        IN  /\ o.outcome.ok
            /\ o.outcome.value \in Seq(STRING)
            /\ ~ env.ANTHROPIC_API_KEY =>
                   /\ ~ o.called
                   /\ o.outcome.value = generateFallbackMessage(o.input)
            /\ (env.ANTHROPIC_API_KEY
                  /\ (o.response.rejected \/ NoTextBlock(o.response.content))) =>
                   /\ o.called
                   /\ o.outcome.value = generateFallbackMessage(o.input)

C12_Witness ==
    /\ IsSome(obs[Message])
    /\ env.ANTHROPIC_API_KEY
    /\ Observed(Message).response.rejected
    /\ IsSome(result)
    /\ Get(result).notificationMessage =
         Some(generateFallbackMessage(Observed(Message).input))


\* C13: in every returned result, of the no-delay path and of the delay path,
\* trafficConditions is exactly the value the traffic lookup returned; the
\* workflow holds that value unchanged through the threshold decision,
\* message generation and the delivery attempts.
C13_TrafficPassThrough ==
    /\ IsSome(result) =>
         /\ IsSome(obs[Traffic])
         /\ Observed(Traffic).outcome.ok
         /\ Get(result).trafficConditions = Observed(Traffic).outcome.value
    /\ pc \in {"generateMessage", "sendNotification"} =>
         /\ IsSome(obs[Traffic])
         /\ Observed(Traffic).outcome.ok
         /\ trafficConditions = Some(Observed(Traffic).outcome.value)

C13_Witness ==
    /\ IsSome(result)
    /\ Get(result).delayDetected
    /\ invoked[Email] = RETRY_MAX_ATTEMPTS
    /\ Observed(Traffic).outcome.value.delayInMinutes = 40
    /\ Get(result).trafficConditions = Observed(Traffic).outcome.value

C13_WitnessNoDelay ==
    /\ IsSome(result)
    /\ ~ Get(result).delayDetected
    /\ Observed(Traffic).outcome.value.delayInMinutes = -1
    /\ Get(result).trafficConditions = Observed(Traffic).outcome.value


----------------------------------------------------------------------------
\* Ordering of the steps

\* True iff activity a has returned a value
HasReturned(a) == IsSome(obs[a]) /\ Observed(a).outcome.ok

\* C14: within a run the steps are ordered traffic lookup, threshold
\* decision, message generation, delivery: message generation is not invoked
\* before the lookup returned and the decision found the threshold reached,
\* and no delivery attempt is invoked before message generation returned the
\* content the delivery is given.
C14_StepsTotallyOrdered ==
    /\ invoked[Message] > 0 =>
         /\ HasReturned(Traffic)
         /\ ExceedsThreshold(orch, Observed(Traffic).outcome.value)
    /\ invoked[Email] > 0 =>
         /\ HasReturned(Message)
         /\ notificationMessage = Some(Observed(Message).outcome.value)
    /\ IsSome(obs[Email]) =>
         /\ HasReturned(Message)
         /\ Observed(Email).input.message = Observed(Message).outcome.value
    /\ pc = "checkTraffic" =>
         act.name = Traffic /\ invoked[Message] = 0 /\ invoked[Email] = 0
    /\ pc = "generateMessage" =>
         act.name = Message /\ HasReturned(Traffic) /\ invoked[Email] = 0
    /\ pc = "sendNotification" =>
         act.name = Email /\ HasReturned(Message)
    /\ IsSome(result) /\ Get(result).delayDetected => invoked[Email] > 0

C14_Witness ==
    /\ pc = "done"
    /\ invoked[Traffic] = 1 /\ invoked[Message] = 1 /\ invoked[Email] = 2
    /\ delivered = 1
    /\ Get(result).notificationMessage = Some(Observed(Message).outcome.value)


----------------------------------------------------------------------------
\* Backoff of the delivery

\* C15: under the delivery policy (1 s, multiplier 2, 3 attempts, cap 10 s)
\* the wait after failed attempt 1 is 1 s and after failed attempt 2 is 2 s,
\* and a delivery that fails every attempt has been suspended 3 s in all
\* when the runtime gives up: the sum of min(1 * 2^(k-1), 10) for k = 1, 2.
C15_DefaultPolicyBackoff ==
    /\ (act.name = Email /\ act.state = "backoff" /\ act.attempt = 1) =>
         act.delay = 1 /\ suspended[Email] = 0
    /\ (act.name = Email /\ act.state = "backoff" /\ act.attempt = 2) =>
         act.delay = 2 /\ suspended[Email] = 1
    /\ (act.name = Email /\ act.attempt = 2 /\ act.state # "backoff") =>
         suspended[Email] = 1
    /\ (act.name = Email /\ act.attempt = 3) => suspended[Email] = 3
    /\ DeliveryFailedTerminally =>
         /\ suspended[Email] = 3
         /\ suspended[Email] =
              Min(RETRY_INITIAL_INTERVAL * Pow(RETRY_BACKOFF_COEFFICIENT, 0),
                  RETRY_MAX_INTERVAL)
                + Min(RETRY_INITIAL_INTERVAL * Pow(RETRY_BACKOFF_COEFFICIENT, 1),
                      RETRY_MAX_INTERVAL)

C15_Witness ==
    /\ DeliveryFailedTerminally
    /\ failed[Email] = RETRY_MAX_ATTEMPTS
    /\ suspended[Email] = 3
    /\ IsSome(obs[Email]) /\ Observed(Email).response = "rejected"


----------------------------------------------------------------------------
\* The retry policy as a function: an activity execution whose attempts all
\* fail, under any policy of the form the proxies pass

\* Largest maximumAttempts of the policies explored
MaxPolicyAttempts == 4

\* Largest initialInterval (seconds) and backoffCoefficient explored
MaxPolicyFactor == 3

\* Policies with an attempt limit, as the retry option of workflows.ts:19-25
ProbePolicies ==
    [initialInterval        : 1..MaxPolicyFactor,
     backoffCoefficient     : 1..MaxPolicyFactor,
     maximumAttempts        : 1..MaxPolicyAttempts,
     maximumInterval        : {2, 5, RETRY_MAX_INTERVAL},
     nonRetryableErrorTypes : {{}, {"Missing SendGrid environment variables"}, {"Error"}}]

\* The failures an attempt of sendEmailNotification can end with
ProbeFailures ==
    { Thrown(<<"Missing SendGrid environment variables: ", "SENDGRID_API_KEY">>),
      Thrown(<<"Failed to send email: ", "SendGrid API is down">>),
      TimedOut }

ProbeInit ==
    /\ probe \in { Some([policy |-> p, attempt |-> 1, state |-> "scheduled",
                         failure |-> None, retry |-> None, delay |-> None,
                         waited |-> 0]) : p \in ProbePolicies }
    /\ orch = "monolithic"
    /\ env = [v \in EnvVars |-> TRUE]
    /\ route \in Routes /\ route.customerName = None
    /\ pc = "checkTraffic"
    /\ act = Schedule("checkTrafficConditions")
    /\ trafficConditions = None
    /\ notificationMessage = None
    /\ result = None
    /\ wfFailure = None
    /\ invoked = [a \in Activities |-> 0]
    /\ failed = [a \in Activities |-> 0]
    /\ suspended = [a \in Activities |-> 0]
    /\ delivered = 0
    /\ obs = [a \in Activities |-> None]
    /\ parked = None
    /\ switches = 0

\* The pending attempt fails with f: the runtime decides whether to retry
\* and, if so, how long to wait
ProbeAttemptFails ==
    /\ IsSome(probe) /\ Get(probe).state = "scheduled"
    /\ \E f \in ProbeFailures :
         LET p == Get(probe)
             r == ShouldRetry(p.policy, p.attempt, f)
         IN  probe' = Some([p EXCEPT
                 !.failure = Some(f),
                 !.retry   = Some(r),
                 !.state   = IF r THEN "backoff" ELSE "rejected",
                 !.delay   = IF r THEN Some(NextDelay(p.policy, p.attempt)) ELSE None])
    /\ UNCHANGED <<orch, env, route, pc, act, trafficConditions, notificationMessage,
                   result, wfFailure, invoked, failed, suspended, delivered, obs,
                   parked, switches>>

\* The backoff has elapsed: the next attempt is pending
ProbeBackoffElapsed ==
    /\ IsSome(probe) /\ Get(probe).state = "backoff"
    /\ LET p == Get(probe)
       IN  probe' = Some([p EXCEPT
               !.state   = "scheduled",
               !.attempt = @ + 1,
               !.waited  = @ + Get(p.delay),
               !.failure = None, !.retry = None, !.delay = None])
    /\ UNCHANGED <<orch, env, route, pc, act, trafficConditions, notificationMessage,
                   result, wfFailure, invoked, failed, suspended, delivered, obs,
                   parked, switches>>

ProbeNext == ProbeAttemptFails \/ ProbeBackoffElapsed

PolicySpec == ProbeInit /\ [][ProbeNext]_vars

C17_WitnessExhausted ==
    /\ IsSome(probe) /\ Get(probe).state = "rejected"
    /\ Get(probe).attempt = 3
    /\ Get(probe).policy.maximumAttempts = 3
    /\ Get(Get(probe).failure).type \notin Get(probe).policy.nonRetryableErrorTypes


----------------------------------------------------------------------------
\* Retries of the traffic lookup

----------------------------------------------------------------------------
\* The delivery operation

\* C20: sendEmailNotification fails with a 'Missing SendGrid environment
\* variables' error, and calls no transport, whenever SENDGRID_API_KEY or
\* SENDGRID_FROM_EMAIL is unset; it fails with a 'Failed to send email' error
\* when the transport rejects the send; it returns only when the transport
\* accepted the send.
C20_DeliveryOperationOutcomes ==
    IsSome(obs[Email]) =>
        LET o == Observed(Email)
        IN  /\ (~ env.SENDGRID_API_KEY \/ ~ env.SENDGRID_FROM_EMAIL) =>
                 /\ ~ o.outcome.ok
                 /\ Head(o.outcome.failure.message) =
                      "Missing SendGrid environment variables: "
                 /\ ~ o.called
                 /\ delivered = 0
            /\ (env.SENDGRID_API_KEY /\ env.SENDGRID_FROM_EMAIL
                  /\ o.response = "rejected") =>
                 /\ ~ o.outcome.ok
                 /\ Head(o.outcome.failure.message) = "Failed to send email: "
                 /\ o.called
            /\ o.outcome.ok =>
                 /\ o.called
                 /\ o.response = "accepted"
                 /\ delivered >= 1

C20_Witness ==
    /\ IsSome(obs[Email])
    /\ env.SENDGRID_API_KEY /\ ~ env.SENDGRID_FROM_EMAIL
    /\ Observed(Email).response = "accepted"
    /\ Observed(Email).outcome.failure.message =
         <<"Missing SendGrid environment variables: ", "SENDGRID_FROM_EMAIL">>

C20_WitnessRejected ==
    /\ IsSome(obs[Email])
    /\ Observed(Email).called
    /\ Observed(Email).outcome.failure.message =
         <<"Failed to send email: ", "SendGrid API is down">>


----------------------------------------------------------------------------
\* Two workflow runs on one worker

\* Largest number of times the worker changes from one run to the other
MaxSwitches == 2

\* The state that belongs to one run: the argument and the locals of its
\* workflow function, its activity execution, and what is recorded of it
Locals ==
    [route |-> route, pc |-> pc, act |-> act,
     trafficConditions |-> trafficConditions,
     notificationMessage |-> notificationMessage,
     result |-> result, wfFailure |-> wfFailure,
     invoked |-> invoked, failed |-> failed, suspended |-> suspended,
     obs |-> obs]

\* The route of the second run
OtherRoute ==
    [origin |-> "Hamburg", destination |-> "Vienna", customerName |-> Some("Ana"),
     customerEmail |-> "other@example.com"]

\* What the two-run exploration lets the services do: the lookup fails or
\* times out at most once per run and reports a delay of 17 or of 40 minutes,
\* message generation answers in time, with a rejection or with a text block;
\* the mail transport is left free.
TwoRunAnswers ==
    /\ failed[Traffic] <= 1 /\ failed[Message] = 0
    /\ IsSome(obs[Traffic]) =>
         \/ Observed(Traffic).response.rejected
         \/ /\ Observed(Traffic).outcome.ok
            /\ Observed(Traffic).outcome.value.delayInSeconds \in {1020, 2400}
    /\ IsSome(obs[Message]) =>
         \/ Observed(Message).response.rejected
         \/ Observed(Message).response.content =
              << [type |-> "text",
                  text |-> <<" ", "Your delivery is delayed by traffic.", "\n">>] >>

TwoRunInit ==
    /\ orch \in Orchestrators
    /\ env = [v \in EnvVars |-> TRUE]
    /\ route \in Routes /\ route.customerName = None
    /\ pc = "checkTraffic"
    /\ act = Schedule("checkTrafficConditions")
    /\ trafficConditions = None
    /\ notificationMessage = None
    /\ result = None
    /\ wfFailure = None
    /\ invoked = [a \in Activities |-> 0]
    /\ failed = [a \in Activities |-> 0]
    /\ suspended = [a \in Activities |-> 0]
    /\ delivered = 0
    /\ obs = [a \in Activities |-> None]
    /\ probe = None
    /\ parked = Some([route |-> OtherRoute, pc |-> "checkTraffic",
                      act |-> Schedule("checkTrafficConditions"),
                      trafficConditions |-> None, notificationMessage |-> None,
                      result |-> None, wfFailure |-> None,
                      invoked |-> [a \in Activities |-> 0],
                      failed |-> [a \in Activities |-> 0],
                      suspended |-> [a \in Activities |-> 0],
                      obs |-> [a \in Activities |-> None]])
    /\ switches = 0

Switch_SharedMessage ==
    /\ IsSome(parked) /\ switches < MaxSwitches
    /\ parked' = Some(Locals)
    /\ switches' = switches + 1
    /\ route' = Get(parked).route
    /\ pc' = Get(parked).pc
    /\ act' = Get(parked).act
    /\ trafficConditions' = Get(parked).trafficConditions
    /\ notificationMessage' = notificationMessage
    /\ result' = Get(parked).result
    /\ wfFailure' = Get(parked).wfFailure
    /\ invoked' = Get(parked).invoked
    /\ failed' = Get(parked).failed
    /\ suspended' = Get(parked).suspended
    /\ obs' = Get(parked).obs
    /\ UNCHANGED <<orch, env, delivered, probe>>

\* The worker leaves the run it was executing and takes up the other: each
\* run has its own workflow context and its own activity executions; the
\* code, the environment and the mail transport are common to both.
Switch ==
    /\ IsSome(parked) /\ switches < MaxSwitches
    /\ parked' = Some(Locals)
    /\ switches' = switches + 1
    /\ route' = Get(parked).route
    /\ pc' = Get(parked).pc
    /\ act' = Get(parked).act
    /\ trafficConditions' = Get(parked).trafficConditions
    /\ notificationMessage' = Get(parked).notificationMessage
    /\ result' = Get(parked).result
    /\ wfFailure' = Get(parked).wfFailure
    /\ invoked' = Get(parked).invoked
    /\ failed' = Get(parked).failed
    /\ suspended' = Get(parked).suspended
    /\ obs' = Get(parked).obs
    /\ UNCHANGED <<orch, env, delivered, probe>>

\* A step of the run being executed, under the answers explored
RunStep == Next /\ TwoRunAnswers'

TwoRunNext == RunStep \/ Switch

TwoRunSpec == TwoRunInit /\ [][TwoRunNext]_vars

\* The result a run returns, from its own route and its own steps' outcomes
OwnResult(o, run) ==
    LET tc == Get(run.obs[Traffic]).outcome.value
    IN  IF ~ ExceedsThreshold(o, tc)
        THEN NoDelayResult(tc)
        ELSE DelayResult(tc, Get(run.obs[Message]).outcome.value,
                         NotificationOutcome(o, run.act).sent,
                         NotificationOutcome(o, run.act).error)

\* True iff everything a run has been given and has returned is its own
Independent(o, run) ==
    /\ IsSome(run.obs[Traffic]) => Get(run.obs[Traffic]).input = run.route
    /\ IsSome(run.obs[Message]) =>
         /\ Get(run.obs[Message]).input.route = run.route
         /\ Get(run.obs[Message]).input.trafficConditions =
              Get(run.obs[Traffic]).outcome.value
    /\ IsSome(run.obs[Email]) =>
         /\ Get(run.obs[Email]).input.to = run.route.customerEmail
         /\ Get(run.obs[Email]).input.message = Get(run.obs[Message]).outcome.value
    /\ IsSome(run.result) => Get(run.result) = OwnResult(o, run)

\* C18: under any interleaving of two runs for different routes, each run is
\* given only its own route and its own steps' values, and its result is the
\* one determined by its own route and its own steps' outcomes, as when it
\* runs alone.
C18_RunsIndependent ==
    /\ Independent(orch, Locals)
    /\ IsSome(parked) =>
         /\ Independent(orch, Get(parked))
         /\ Get(parked).route # route

\* both runs ended, interleaved, on different paths with different messages
C18_Witness ==
    /\ IsSome(parked) /\ switches = MaxSwitches
    /\ IsSome(result) /\ IsSome(Get(parked).result)
    /\ Get(result).delayDetected /\ Get(Get(parked).result).delayDetected
    /\ Get(result).notificationMessage # Get(Get(parked).result).notificationMessage
    /\ Get(parked).invoked[Email] > 0 /\ invoked[Email] > 0
    /\ Get(parked).pc = "done" /\ pc = "done"


----------------------------------------------------------------------------
\* The traffic lookup

\* C21: checkTrafficConditions returns a value only when the API key is set,
\* the request was answered, the status is OK and a route is returned; without
\* the key it fails and issues no request; it fails when the request is
\* rejected, when the status is not OK and when the route list is empty.
C21_LookupOutcomes ==
    IsSome(obs[Traffic]) =>
        LET o == Observed(Traffic)
        IN  /\ o.outcome.ok =>
                 /\ env.GOOGLE_MAPS_API_KEY
                 /\ o.called
                 /\ ~ o.response.rejected
                 /\ o.response.status = "OK"
                 /\ Len(o.response.routes) >= 1
            /\ ~ env.GOOGLE_MAPS_API_KEY =>
                 /\ ~ o.outcome.ok
                 /\ ~ o.called
                 /\ o.outcome.failure.message =
                      <<"GOOGLE_MAPS_API_KEY environment variable is not set">>
            /\ (env.GOOGLE_MAPS_API_KEY
                  /\ (o.response.rejected \/ o.response.status # "OK"
                        \/ Len(o.response.routes) = 0)) =>
                 /\ ~ o.outcome.ok
                 /\ o.called
                 /\ Head(o.outcome.failure.message) = "Failed to fetch traffic conditions: "

C21_Witness ==
    /\ IsSome(obs[Traffic])
    /\ env.GOOGLE_MAPS_API_KEY
    /\ Observed(Traffic).response.status = "OK"
    /\ Len(Observed(Traffic).response.routes) = 0
    /\ Observed(Traffic).outcome.failure.message =
         <<"Failed to fetch traffic conditions: ",
           "No routes found for the given origin and destination">>

C21_WitnessNoKey ==
    /\ IsSome(obs[Traffic])
    /\ ~ env.GOOGLE_MAPS_API_KEY
    /\ Observed(Traffic).response.status = "OK"
    /\ Len(Observed(Traffic).response.routes) = 1
    /\ ~ Observed(Traffic).outcome.ok

\* C22: the lookup's output has delayInSeconds = durationInTraffic -
\* durationWithoutTraffic, a negative difference included, and delayInMinutes
\* is delayInSeconds / 60 rounded to the nearest whole minute: 630 s gives
\* 11, 1020 s gives 17, 0 s gives 0.
C22_DelayComputation ==
    (IsSome(obs[Traffic]) /\ Observed(Traffic).outcome.ok) =>
        LET leg == Observed(Traffic).response.routes[1].legs[1]
            v   == Observed(Traffic).outcome.value
        IN  /\ v.durationWithoutTraffic = leg.duration
            /\ (IsSome(leg.duration_in_traffic) /\ Get(leg.duration_in_traffic) # 0) =>
                   v.durationInTraffic = Get(leg.duration_in_traffic)
            /\ v.delayInSeconds = v.durationInTraffic - v.durationWithoutTraffic
            /\ 60 * v.delayInMinutes - v.delayInSeconds <= 30
            /\ v.delayInSeconds - 60 * v.delayInMinutes <= 30
            /\ v.delayInSeconds = 630 => v.delayInMinutes = 11
            /\ v.delayInSeconds = 1020 => v.delayInMinutes = 17
            /\ v.delayInSeconds = 0 => v.delayInMinutes = 0

C22_Witness ==
    /\ IsSome(obs[Traffic]) /\ Observed(Traffic).outcome.ok
    /\ Observed(Traffic).outcome.value.durationInTraffic = 3510
    /\ Observed(Traffic).outcome.value.delayInSeconds = -90
    /\ Observed(Traffic).outcome.value.delayInMinutes = -1

C22_WitnessHalfMinute ==
    /\ IsSome(result)
    /\ Get(result).trafficConditions.delayInSeconds = 630
    /\ Get(result).trafficConditions.delayInMinutes = 11


----------------------------------------------------------------------------
\* The outcome of the delivery

\* True iff the last completed invocation of activity a returned
LastAttemptReturned(a) == IsSome(obs[a]) /\ Observed(a).outcome.ok

\* C23: on the delay path notificationSent is true exactly when a delivery
\* attempt succeeded; when attempts failed and a later one succeeded the
\* result has notificationSent = true and no notificationError, and is the
\* result of a run whose first attempt succeeded.
C23_SentIffAttemptSucceeded ==
    (IsSome(result) /\ Get(result).delayDetected) =>
        /\ Get(result).notificationSent <=> LastAttemptReturned(Email)
        /\ Get(result).notificationSent <=> invoked[Email] = failed[Email] + 1
        /\ ~ Get(result).notificationSent <=> invoked[Email] = failed[Email]
        /\ LastAttemptReturned(Email) =>
             /\ Get(result).notificationError = None
             /\ Get(result) = [delayDetected       |-> TRUE,
                               trafficConditions   |-> Observed(Traffic).outcome.value,
                               notificationSent    |-> TRUE,
                               notificationMessage |-> Some(Observed(Message).outcome.value),
                               notificationError   |-> None]

C23_Witness ==
    /\ IsSome(result) /\ Get(result).notificationSent
    /\ Get(result).notificationError = None
    /\ orch = "modular"
    /\ failed[Email] = 2 /\ invoked[Email] = 3
    /\ IsSome(act.lastFailure)
    /\ Get(act.lastFailure).message = <<"Failed to send email: ", "SendGrid API is down">>

\* C24: once a delivery attempt has succeeded the proxy call has resolved,
\* and from then on the run makes no delivery attempt and waits no backoff.
C24_NothingAfterSuccess ==
    [][LastAttemptReturned(Email) =>
          /\ act.name = Email /\ act.state = "resolved"
          /\ act' = act
          /\ invoked' = invoked
          /\ failed' = failed
          /\ suspended' = suspended
          /\ delivered' = delivered]_vars

C24_Witness ==
    /\ pc = "done" /\ LastAttemptReturned(Email)
    /\ act.attempt = 2 /\ act.state = "resolved"
    /\ suspended[Email] = 1
    /\ failed[Email] = 1
    /\ Get(result).notificationSent


----------------------------------------------------------------------------
\* Short-circuit of the no-delay path

\* C25: in a run whose threshold decision is "not exceeded" neither message
\* generation nor the delivery is ever invoked; the delivery is invoked only
\* in runs whose lookup returned and whose decision was "exceeded".
C25_ShortCircuit ==
    /\ (IsSome(trafficConditions)
          /\ ~ ExceedsThreshold(orch, Get(trafficConditions))) =>
         /\ invoked[Message] = 0 /\ invoked[Email] = 0 /\ delivered = 0
         /\ pc = "done"
    /\ (IsSome(trafficConditions)
          /\ Get(trafficConditions).delayInMinutes < DELAY_THRESHOLD_MINUTES) =>
         invoked[Message] = 0 /\ invoked[Email] = 0 /\ delivered = 0
    /\ (IsSome(result) /\ ~ Get(result).delayDetected) =>
         invoked[Message] = 0 /\ invoked[Email] = 0 /\ obs[Email] = None
    /\ invoked[Email] > 0 =>
         /\ LastAttemptReturned(Traffic)
         /\ ExceedsThreshold(orch, Observed(Traffic).outcome.value)
         /\ Observed(Traffic).outcome.value.delayInMinutes >= DELAY_THRESHOLD_MINUTES

C25_Witness ==
    /\ pc = "done" /\ IsSome(result) /\ ~ Get(result).delayDetected
    /\ Observed(Traffic).outcome.value.delayInMinutes = 17
    /\ failed[Traffic] = 0
    /\ invoked = [a \in Activities |-> IF a = Traffic THEN 1 ELSE 0]

C25_WitnessDelivery ==
    /\ invoked[Email] > 0
    /\ Observed(Traffic).outcome.value.delayInMinutes = DELAY_THRESHOLD_MINUTES


----------------------------------------------------------------------------
\* The recorded error, and the two orchestrators

\* C26: when the delivery ends in terminal failure, notificationError is the
\* message of the last delivery failure: the failure of attempt
\* maximumAttempts after exhaustion, not that of an earlier attempt.
C26_ErrorIsTerminalFailureMessage ==
    (IsSome(result) /\ Get(result).delayDetected /\ ~ Get(result).notificationSent) =>
        /\ IsSome(act.lastFailure)
        /\ Get(result).notificationError = Some(Get(act.lastFailure).message)

\* The orchestrator the worker does not run, of the two of the claim
OtherOrchestrator == IF orch = "monolithic" THEN "modular" ELSE "monolithic"

\* C27: the monolithic orchestrator and the modular one return the same
\* result for every lookup output and every course of the delivery, except
\* for a delay equal to the threshold, where the modular one (strict >)
\* returns the no-delay result and the monolithic one the delay result.
C27_OrchestratorsAgree ==
    (IsSome(result) /\ orch \in {"monolithic", "modular"}) =>
        LET tc == Get(result).trafficConditions
        IN  /\ Get(result) = OwnResult(orch, Locals)
            /\ tc.delayInMinutes # DELAY_THRESHOLD_MINUTES =>
                 OwnResult(OtherOrchestrator, Locals) = Get(result)
            /\ tc.delayInMinutes = DELAY_THRESHOLD_MINUTES =>
                 /\ Get(result).delayDetected <=> orch = "monolithic"
                 /\ ExceedsThreshold(OtherOrchestrator, tc) <=> orch = "modular"

C27_Witness ==
    /\ orch = "monolithic" /\ IsSome(result)
    /\ Get(result).trafficConditions.delayInMinutes = 40
    /\ ~ Get(result).notificationSent
    /\ failed[Email] = RETRY_MAX_ATTEMPTS
    /\ Get(result).notificationError = Some(<<"Activity task failed">>)
    /\ OwnResult("modular", Locals) = Get(result)

C27_WitnessBoundary ==
    /\ orch = "monolithic" /\ IsSome(result)
    /\ Get(result).trafficConditions.delayInMinutes = DELAY_THRESHOLD_MINUTES
    /\ Get(result).notificationSent
    /\ ~ ExceedsThreshold("modular", Get(result).trafficConditions)


----------------------------------------------------------------------------
\* Bounded at-least-once delivery

\* C28: whatever the attempts end with, a send that was accepted in an
\* attempt reported as failed included, the delivery operation is invoked at
\* least once on the delay path and never more than maximumAttempts times.
C28_BoundedAtLeastOnce ==
    /\ invoked[Email] <= RETRY_MAX_ATTEMPTS
    /\ delivered <= invoked[Email]
    /\ (IsSome(result) /\ Get(result).delayDetected) =>
         invoked[Email] \in 1..RETRY_MAX_ATTEMPTS
    /\ (act.name = Email /\ act.state \in {"resolved", "rejected"}) =>
         invoked[Email] = act.attempt
    /\ (act.name = Email /\ act.state \in {"scheduled", "backoff"}) =>
         /\ act.attempt <= RETRY_MAX_ATTEMPTS
         /\ invoked[Email] = (IF act.state = "scheduled" THEN act.attempt - 1 ELSE act.attempt)

\* three sends accepted by the transport, each in an attempt that timed out
C28_Witness ==
    /\ IsSome(result) /\ ~ Get(result).notificationSent
    /\ invoked[Email] = RETRY_MAX_ATTEMPTS
    /\ delivered = RETRY_MAX_ATTEMPTS
    /\ obs[Email] = None


----------------------------------------------------------------------------
\* Termination

\* Under a policy without attempt limit the runtime goes on retrying beyond
\* the attempts the exploration counts: the execution is taken up again as a
\* pending attempt, and the counting of this execution starts over.
FurtherAttempts ==
    /\ act.state = "backoff"
    /\ PolicyOf(act.name).maximumAttempts = 0
    /\ act.attempt >= MaxDefaultAttempts
    /\ act' = Schedule(act.name)
    /\ invoked' = [invoked EXCEPT ![act.name] = 0]
    /\ failed' = [failed EXCEPT ![act.name] = 0]
    /\ suspended' = [suspended EXCEPT ![act.name] = 0]
    /\ obs' = [obs EXCEPT ![act.name] = None]
    /\ UNCHANGED <<probe, parked, switches>>
    /\ UNCHANGED <<orch, env, route, pc, trafficConditions, notificationMessage,
                   result, wfFailure, delivered>>

\* A pending attempt ends: its invocation completes, or its timeout fires
AttemptEnds ==
    \/ InvokeCheckTrafficConditions
    \/ InvokeGenerateDelayMessage
    \/ InvokeSendEmailNotification
    \/ StartToCloseTimeout

\* The runtime's backoff timer fires
TimerFires == BackoffElapsed \/ FurtherAttempts

\* The worker resumes the workflow function at its pending await
WorkflowResumes == AwaitCheckTraffic \/ AwaitGenerateMessage \/ AwaitSendNotification

LiveNext == AttemptEnds \/ TimerFires \/ WorkflowResumes

\* Every invocation eventually completes or times out, every timer fires,
\* and the worker resumes a workflow whose await has settled.
Fairness ==
    /\ WF_vars(AttemptEnds)
    /\ WF_vars(TimerFires)
    /\ WF_vars(WorkflowResumes)

LiveSpec == Init /\ [][LiveNext]_vars /\ Fairness

\* True iff an attempt of the lookup or of message generation has just failed
\* and is to be retried
RetriedWithoutLimit == act.name \in {Traffic, Message} /\ act.state = "backoff"

----------------------------------------------------------------------------
\* Timeouts of the delivery

\* True iff the last failed attempt of the current execution was a timeout
LastAttemptTimedOut ==
    IsSome(act.lastFailure) /\ Get(act.lastFailure).type = "TimeoutFailure"

\* C30: a delivery attempt that runs past its timeout is a failed attempt
\* like any retryable one: it counts toward maximumAttempts, it is followed
\* by the policy's backoff, and as the last allowed attempt it is the
\* terminal failure, recorded in notificationError and not propagated.
C30_TimeoutIsRetryableFailure ==
    (act.name = Email /\ LastAttemptTimedOut) =>
        /\ act.state = "backoff" =>
             /\ act.attempt < RETRY_MAX_ATTEMPTS
             /\ invoked[Email] = act.attempt /\ failed[Email] = act.attempt
             /\ act.delay = (IF act.attempt = 1 THEN RETRY_INITIAL_INTERVAL
                             ELSE RETRY_INITIAL_INTERVAL * RETRY_BACKOFF_COEFFICIENT)
        /\ act.state = "rejected" =>
             /\ act.attempt = RETRY_MAX_ATTEMPTS
             /\ invoked[Email] = RETRY_MAX_ATTEMPTS /\ failed[Email] = RETRY_MAX_ATTEMPTS
             /\ pc # "failed" /\ wfFailure = None
        /\ (act.state = "rejected" /\ Ended) =>
             /\ IsSome(result)
             /\ ~ Get(result).notificationSent
             /\ IsSome(Get(result).notificationError)

C30_Witness ==
    /\ act.name = Email /\ act.state = "rejected" /\ LastAttemptTimedOut
    /\ pc = "done"
    /\ failed[Email] = RETRY_MAX_ATTEMPTS
    /\ suspended[Email] = 3
    /\ IsSome(Get(result).notificationError)
    /\ IsSome(obs[Email]) /\ Observed(Email).response = "rejected"

====
